---------------------------- MODULE Spec2Model ----------------------------
(***************************************************************************)
(* A model of humanJoin.js: the joiner humanJoin(list, options), its       *)
(* helpers mirrorCharacter and mirrorString, the mirror map and the        *)
(* process-wide record humanJoin.optionDefaults with resetOptionDefaults.  *)
(*                                                                         *)
(* Release 0.1.1 (src/unnamed/part_001) is the program the state machine   *)
(* runs; the joiner of release 0.0.1 (src/humanJoin.js), which has no      *)
(* defaults record, is modelled beside it as humanJoin_0_0_1.              *)
(*                                                                         *)
(* A JavaScript string is a sequence of characters, each character a       *)
(* one-character TLA+ string (the two non-ASCII characters of the mirror   *)
(* map are named by their code points).  A JavaScript value is a record    *)
(* [t, b, n, s]: its type tag, and its boolean, integer or string payload. *)
(***************************************************************************)
EXTENDS Integers, Sequences, FiniteSets, TLC

VARIABLES
    optionDefaults, \* humanJoin.optionDefaults: key -> value (Undefined: key absent)
    called,         \* the operation that ran last
    list,           \* the list argument of the last call of a joiner
    options,        \* the options argument of the last call of a joiner
    conf,           \* the joiner's locals separator, conjunction, quoteWith,
                    \* mirrorQuote once the configuration is resolved
    result,         \* the outcome of the last call: a returned value or a throw
    arg,            \* the argument of the last call of a mirror helper
    after,          \* the objects a joiner was handed or can reach (the list,
                    \* the options, the defaults record, the mirror map) as
                    \* its last call left them
    held            \* the reference the caller keeps to a defaults record:
                    \* whether it has taken one, whether the object it refers
                    \* to is still humanJoin.optionDefaults, whether a reset
                    \* ran since it was taken, and what the object holds

vars == <<optionDefaults, called, list, options, conf, result, arg, after, held>>

---------------------------------------------------------------------------
(* Bounds of the model. *)

\* The longest array handed to a joiner.
MaxLen == 3

\* The longest string handed to mirrorString.
MaxStr == 3

\* The most fields (separator, conjunction, quoteWith, mirrorQuote) that an
\* options record of the model sets.
MaxFields == 2

---------------------------------------------------------------------------
(* JavaScript values. *)

Undefined == [t |-> "undefined", b |-> FALSE, n |-> 0, s |-> <<>>]
Null      == [t |-> "null",      b |-> FALSE, n |-> 0, s |-> <<>>]
Bool(b)   == [t |-> "boolean",   b |-> b,     n |-> 0, s |-> <<>>]
Num(n)    == [t |-> "number",    b |-> FALSE, n |-> n, s |-> <<>>]
Str(s)    == [t |-> "string",    b |-> FALSE, n |-> 0, s |-> s]
\* A function value carries its source text, a plain object nothing.
Func(s)   == [t |-> "function",  b |-> FALSE, n |-> 0, s |-> s]
Obj       == [t |-> "object",    b |-> FALSE, n |-> 0, s |-> <<>>]

True  == Bool(TRUE)
False == Bool(FALSE)

\* typeof v
typeof(v) ==
    CASE v.t = "null" -> "object"
      [] OTHER        -> v.t

\* ToBoolean(v): the truthiness an if, a ! or a ?: tests.
Truthy(v) ==
    CASE v.t = "undefined" -> FALSE
      [] v.t = "null"      -> FALSE
      [] v.t = "boolean"   -> v.b
      [] v.t = "number"    -> v.n # 0
      [] v.t = "string"    -> v.s # <<>>
      [] OTHER             -> TRUE

Digit(d) ==
    CASE d = 0 -> "0" [] d = 1 -> "1" [] d = 2 -> "2" [] d = 3 -> "3"
      [] d = 4 -> "4" [] d = 5 -> "5" [] d = 6 -> "6" [] d = 7 -> "7"
      [] d = 8 -> "8" [] d = 9 -> "9"

RECURSIVE Digits(_)
\* The decimal digits of a natural number, most significant first.
Digits(n) == IF n < 10 THEN <<Digit(n)>> ELSE Digits(n \div 10) \o <<Digit(n % 10)>>

\* Number.prototype.toString for an integer.
NumberToStr(n) == IF n < 0 THEN <<"-">> \o Digits(-n) ELSE Digits(n)

\* ToString(v): what String(v) and '' + v give, as a sequence of characters.
ToStr(v) ==
    CASE v.t = "undefined" -> <<"u","n","d","e","f","i","n","e","d">>
      [] v.t = "null"      -> <<"n","u","l","l">>
      [] v.t = "boolean"   -> IF v.b THEN <<"t","r","u","e">> ELSE <<"f","a","l","s","e">>
      [] v.t = "number"    -> NumberToStr(v.n)
      [] v.t = "string"    -> v.s
      [] v.t = "function"  -> v.s
      [] v.t = "object"    -> <<"[","o","b","j","e","c","t"," ","O","b","j","e","c","t","]">>

\* a + b where one operand is a string: both are converted and concatenated.
Plus(a, b) == Str(ToStr(a) \o ToStr(b))

---------------------------------------------------------------------------
(* The mirror helpers. *)

\* The map without the entries that lead back from the closing characters.
mirrorMap_openingOnly ==
    [c \in {"!", "?", "(", "{", "[", "<"} |->
        CASE c = "!" -> "U+00A1"
          [] c = "?" -> "U+00BF"
          [] c = "(" -> ")"
          [] c = "{" -> "}"
          [] c = "[" -> "]"
          [] c = "<" -> ">"]

\* The characters U+00A1 and U+00BF are written by their code points.
mirrorMap ==
    [c \in {"!", "?", "(", ")", "{", "}", "[", "]", "<", ">"} |->
        CASE c = "!" -> "U+00A1"
          [] c = "?" -> "U+00BF"
          [] c = "(" -> ")"
          [] c = ")" -> "("
          [] c = "{" -> "}"
          [] c = "}" -> "{"
          [] c = "[" -> "]"
          [] c = "]" -> "["
          [] c = "<" -> ">"
          [] c = ">" -> "<"]

\* The helper without "shorten long strings to single characters": the
\* whole string is looked up and, having no entry, returned.
mirrorCharacter_notShortened(c) ==
    IF ~(typeof(c) = "string" \/ typeof(c) = "number")
    THEN Str(<<>>)
    ELSE IF c.t = "string" /\ Len(c.s) < 1
    THEN Str(<<>>)
    ELSE LET str == ToStr(c)
         IN  IF Len(str) = 1 /\ str[1] \in DOMAIN mirrorMap
             THEN Str(<<mirrorMap[str[1]]>>)
             ELSE Str(str)

mirrorCharacter(c) ==
    IF ~(typeof(c) = "string" \/ typeof(c) = "number")
    THEN Str(<<>>)
    \* c.length is undefined for a number, and undefined < 1 is false
    ELSE IF c.t = "string" /\ Len(c.s) < 1
    THEN Str(<<>>)
    ELSE LET str   == ToStr(c)
             first == IF Len(str) > 1 THEN SubSeq(str, 1, 1) ELSE str
         IN  IF first[1] \in DOMAIN mirrorMap
             THEN Str(<<mirrorMap[first[1]]>>)
             ELSE Str(first)

RECURSIVE Reverse(_)
\* Array.prototype.reverse
Reverse(s) == IF s = <<>> THEN <<>> ELSE Reverse(Tail(s)) \o <<Head(s)>>

RECURSIVE MirrorEach(_, _)
\* The forEach of mirrorString: ans += mirrorCharacter(c) for each c in turn.
MirrorEach(ans, chars) ==
    IF chars = <<>> THEN ans
    ELSE MirrorEach(Plus(ans, mirrorCharacter(Str(<<Head(chars)>>))), Tail(chars))

\* The helper without the reverse(): the characters mirrored in place.
mirrorString_notReversed(str) ==
    IF ~(typeof(str) = "string" \/ typeof(str) = "number")
    THEN Str(<<>>)
    ELSE MirrorEach(Str(<<>>), ToStr(str))

mirrorString(str) ==
    IF ~(typeof(str) = "string" \/ typeof(str) = "number")
    THEN Str(<<>>)
    ELSE MirrorEach(Str(<<>>), Reverse(ToStr(str)))

---------------------------------------------------------------------------
(* The arguments of a joiner. *)

\* The list argument: an array of items, an Arguments object of items, or
\* any other value v.
Array(items)     == [kind |-> "array",     items |-> items, v |-> Undefined]
Arguments(items) == [kind |-> "arguments", items |-> items, v |-> Undefined]
Value(v)         == [kind |-> "value",     items |-> <<>>,  v |-> v]

\* Array.isArray(list)
IsArray(l) == l.kind = "array"

\* Object.prototype.toString.call(list) === '[object Arguments]'
IsArgumentsObject(l) == l.kind = "arguments"

\* String(list) of a list that is not an array.
StringOfList(l) ==
    IF l.kind = "arguments"
    THEN Str(<<"[","o","b","j","e","c","t"," ","A","r","g","u","m","e","n","t","s","]">>)
    ELSE Str(ToStr(l.v))

\* The keys humanJoin reads from its options.
OptionNames ==
    {"separator", "conjunction", "noConjunction", "quoteWith", "mirrorQuote",
     "and", "or", "oxford", "oxfordAnd", "oxfordOr"}

NoProps == [k \in OptionNames |-> Undefined]

\* The options argument: its kind, the text of a string (as a key), and the
\* properties an object holds under the names humanJoin reads.  An array
\* holds none of them.
Omitted        == [kind |-> "undefined", key |-> "", props |-> NoProps]
NullOptions    == [kind |-> "null",      key |-> "", props |-> NoProps]
NumberOptions  == [kind |-> "number",    key |-> "", props |-> NoProps]
BooleanOptions == [kind |-> "boolean",   key |-> "", props |-> NoProps]
FunctionOptions == [kind |-> "function", key |-> "", props |-> NoProps]
ArrayOptions   == [kind |-> "array",     key |-> "", props |-> NoProps]
Shortcut(name) == [kind |-> "string",    key |-> name, props |-> NoProps]
Record(props)  == [kind |-> "object",    key |-> "", props |-> props]

\* typeof options
typeofOptions(o) ==
    CASE o.kind \in {"null", "array", "object"} -> "object"
      [] OTHER -> o.kind

\* "make sure we have a sane options object": a string becomes
\* {<string>: true}, and whatever is then not of type object becomes {}.
SaneOptions(o) ==
    LET o1 == IF typeofOptions(o) = "string"
              THEN Record([k \in OptionNames |-> IF k = o.key THEN True ELSE Undefined])
              ELSE o
    IN  IF typeofOptions(o1) # "object" THEN Record(NoProps) ELSE o1

\* Reading a property of the options throws a TypeError when options is null.
CanRead(o) == o.kind # "null"

---------------------------------------------------------------------------
(* humanJoin, release 0.1.1. *)

IsStringOrNumber(v) == typeof(v) = "string" \/ typeof(v) = "number"

IsStringNumberOrBoolean(v) ==
    typeof(v) = "string" \/ typeof(v) = "number" \/ typeof(v) = "boolean"

\* The keys of humanJoin.optionDefaults that humanJoin reads.
DefaultNames == {"separator", "conjunction", "quoteWith", "mirrorQuote"}

\* The locals of humanJoin that hold the configuration.
Conf(separator, conjunction, quoteWith, mirrorQuote) ==
    [separator |-> separator, conjunction |-> conjunction,
     quoteWith |-> quoteWith, mirrorQuote |-> mirrorQuote]

\* The locals before the configuration is set up.
NoConf == Conf(Undefined, Undefined, Undefined, Undefined)

\* The two assignments in the other order: the default's separator, when it
\* is usable, replaces the option's.
ResolveSeparator_defaultLast(def, o) ==
    LET separator0 == IF IsStringOrNumber(o.props.separator)
                      THEN o.props.separator ELSE Str(<<",", " ">>)
        separator1 == IF IsStringOrNumber(def.separator)
                      THEN def.separator ELSE separator0
    IN  Plus(Str(<<>>), separator1)

\* var separator: the default's if a string or a number, else ', '; the
\* option's if a string or a number; forced to a string.
ResolveSeparator(def, o) ==
    LET separator0 == IF IsStringOrNumber(def.separator)
                      THEN def.separator ELSE Str(<<",", " ">>)
        separator1 == IF IsStringOrNumber(o.props.separator)
                      THEN o.props.separator ELSE separator0
    IN  Plus(Str(<<>>), separator1)

\* options.noConjunction tested before options.conjunction is read, so that
\* a conjunction given in the same options replaces the false.
ResolveConjunction_noConjunctionFirst(def, o) ==
    LET conjunction0 == IF IsStringNumberOrBoolean(def.conjunction)
                        THEN def.conjunction ELSE Str(<<" ", "&", " ">>)
        conjunction1 == IF Truthy(o.props.noConjunction) THEN False ELSE conjunction0
        conjunction2 == IF IsStringNumberOrBoolean(o.props.conjunction)
                        THEN o.props.conjunction ELSE conjunction1
    IN  IF typeof(conjunction2) = "number"
        THEN Plus(Str(<<>>), conjunction2) ELSE conjunction2

\* var conjunction: the default's if a string, a number or a boolean, else
\* ' & '; the option's if one of these; a number forced to a string; false
\* when options.noConjunction is truthy.
ResolveConjunction(def, o) ==
    LET conjunction0 == IF IsStringNumberOrBoolean(def.conjunction)
                        THEN def.conjunction ELSE Str(<<" ", "&", " ">>)
        conjunction1 == IF IsStringNumberOrBoolean(o.props.conjunction)
                        THEN o.props.conjunction ELSE conjunction0
        conjunction2 == IF typeof(conjunction1) = "number"
                        THEN Plus(Str(<<>>), conjunction1) ELSE conjunction1
    IN  IF Truthy(o.props.noConjunction) THEN False ELSE conjunction2

\* quoteWith left a number, so that the loop tests the number 0 itself.
ResolveQuoteWith_numberKept(def, o) ==
    LET quoteWith0 == IF IsStringNumberOrBoolean(def.quoteWith)
                      THEN def.quoteWith ELSE False
    IN  IF IsStringNumberOrBoolean(o.props.quoteWith)
        THEN o.props.quoteWith ELSE quoteWith0

\* var quoteWith: the default's if a string, a number or a boolean, else
\* false; the option's if one of these; a number forced to a string.
ResolveQuoteWith(def, o) ==
    LET quoteWith0 == IF IsStringNumberOrBoolean(def.quoteWith)
                      THEN def.quoteWith ELSE False
        quoteWith1 == IF IsStringNumberOrBoolean(o.props.quoteWith)
                      THEN o.props.quoteWith ELSE quoteWith0
    IN  IF typeof(quoteWith1) = "number" THEN Plus(Str(<<>>), quoteWith1) ELSE quoteWith1

\* The hard default false in the place of true.
ResolveMirrorQuote_hardFalse(def, o) ==
    LET mirrorQuote0 == IF typeof(def.mirrorQuote) = "boolean" THEN def.mirrorQuote ELSE False
    IN  IF typeof(o.props.mirrorQuote) # "undefined"
        THEN (IF Truthy(o.props.mirrorQuote) THEN True ELSE False)
        ELSE mirrorQuote0

\* var mirrorQuote: the default's if a boolean, else true; the truthiness of
\* the option's unless it is undefined.
ResolveMirrorQuote(def, o) ==
    LET mirrorQuote0 == IF typeof(def.mirrorQuote) = "boolean" THEN def.mirrorQuote ELSE True
    IN  IF typeof(o.props.mirrorQuote) # "undefined"
        THEN (IF Truthy(o.props.mirrorQuote) THEN True ELSE False)
        ELSE mirrorQuote0

\* "set up configuration": the four locals from the defaults record def and
\* the options object o.
SetUpConfiguration(def, o) ==
    Conf(ResolveSeparator(def, o), ResolveConjunction(def, o),
         ResolveQuoteWith(def, o), ResolveMirrorQuote(def, o))

\* The four ifs in the opposite order, so that the flag and is tested last.
ApplyShortcuts_andLast(o, conjunction) ==
    LET c1 == IF Truthy(o.props.oxfordOr) THEN Str(<<",", " ", "o", "r", " ">>) ELSE conjunction
        c2 == IF Truthy(o.props.oxford) \/ Truthy(o.props.oxfordAnd)
              THEN Str(<<",", " ", "a", "n", "d", " ">>) ELSE c1
        c3 == IF Truthy(o.props.or) THEN Str(<<" ", "o", "r", " ">>) ELSE c2
        c4 == IF Truthy(o.props.and) THEN Str(<<" ", "a", "n", "d", " ">>) ELSE c3
    IN  c4

\* "apply any shortcuts specified": the conjunction after the four ifs.
ApplyShortcuts(o, conjunction) ==
    LET c1 == IF Truthy(o.props.and) THEN Str(<<" ", "a", "n", "d", " ">>) ELSE conjunction
        c2 == IF Truthy(o.props.or) THEN Str(<<" ", "o", "r", " ">>) ELSE c1
        c3 == IF Truthy(o.props.oxford) \/ Truthy(o.props.oxfordAnd)
              THEN Str(<<",", " ", "a", "n", "d", " ">>) ELSE c2
        c4 == IF Truthy(o.props.oxfordOr) THEN Str(<<",", " ", "o", "r", " ">>) ELSE c3
    IN  c4

\* The loop closing a quoted item with the quote itself whatever mirrorQuote
\* says.
StringList_neverMirrored(items, quoteWith, mirrorQuote) ==
    [i \in 1..Len(items) |->
        LET s == Plus(Str(<<>>), items[i])
        IN  IF Truthy(quoteWith)
            THEN Plus(Plus(quoteWith, s), quoteWith)
            ELSE s]

\* "process the array to quote and stringify as needed": stringList.
StringList(items, quoteWith, mirrorQuote) ==
    [i \in 1..Len(items) |->
        LET s == Plus(Str(<<>>), items[i])
        IN  IF Truthy(quoteWith)
            THEN IF Truthy(mirrorQuote)
                 THEN Plus(Plus(quoteWith, s), mirrorString(quoteWith))
                 ELSE Plus(Plus(quoteWith, s), quoteWith)
            ELSE s]

RECURSIVE JoinLoop_truthy(_, _, _, _)
\* The loop testing the conjunction for truthiness (&& conjunction) and not
\* against false, so that an empty conjunction gives way to the separator.
JoinLoop_truthy(ans, stringList, separator, conjunction) ==
    IF Len(stringList) = 0 THEN ans
    ELSE LET ans1 == IF Len(stringList) = 1 /\ Truthy(conjunction)
                     THEN Plus(ans, conjunction)
                     ELSE Plus(ans, separator)
         IN  JoinLoop_truthy(Plus(ans1, Head(stringList)), Tail(stringList),
                             separator, conjunction)

RECURSIVE JoinLoop(_, _, _, _)
\* The while loop of "generate the human-friendly string", one pass per call.
JoinLoop(ans, stringList, separator, conjunction) ==
    IF Len(stringList) = 0 THEN ans
    ELSE LET ans1 == IF Len(stringList) = 1 /\ conjunction # False
                     THEN Plus(ans, conjunction)
                     ELSE Plus(ans, separator)
         IN  JoinLoop(Plus(ans1, Head(stringList)), Tail(stringList),
                      separator, conjunction)

\* The loop entered with an empty ans and every item still in stringList, so
\* that a delimiter precedes the first item too.
GenerateString_noShift(stringList, separator, conjunction) ==
    JoinLoop(Str(<<>>), stringList, separator, conjunction)

\* "generate the human-friendly string": ans = stringList.shift(), then the loop.
GenerateString(stringList, separator, conjunction) ==
    JoinLoop(Head(stringList), Tail(stringList), separator, conjunction)

\* The outcome of a call.
Return(v) == [threw |-> FALSE, error |-> "",  value |-> v]
Throw(e)  == [threw |-> TRUE,  error |-> e,   value |-> Undefined]

\* The outcome of a joiner and its configuration locals as the call ends.
Outcome(r, c) == [result |-> r, conf |-> c]

\* The test letting an Arguments object through to the loops, as the comment
\* on the for loop has it.
IsNonArray_butArguments(l) == ~IsArray(l) /\ ~IsArgumentsObject(l)

\* "short-circuit non-arrays": the test.
IsNonArray(l) == ~IsArray(l) \/ IsArgumentsObject(l)

\* humanJoin from "make sure we have a sane options object" on, for an array
\* of at least one item.
JoinItems(items, o, def) ==
    LET sane == SaneOptions(o)
    IN  IF ~CanRead(sane)
        THEN Outcome(Throw("TypeError"), NoConf)
        ELSE LET c0 == SetUpConfiguration(def, sane)
                 c  == [c0 EXCEPT !.conjunction = ApplyShortcuts(sane, c0.conjunction)]
             IN  Outcome(Return(GenerateString(
                                    StringList(items, c.quoteWith, c.mirrorQuote),
                                    c.separator, c.conjunction)),
                         c)

\* humanJoin with the options made sane and read before the short-circuits.
humanJoin_optionsFirst(l, o, def) ==
    IF ~CanRead(SaneOptions(o))
    THEN Outcome(Throw("TypeError"), NoConf)
    ELSE IF IsNonArray(l)
    THEN Outcome(Return(StringOfList(l)), NoConf)
    ELSE IF Len(l.items) = 0
    THEN Outcome(Return(Str(<<>>)), NoConf)
    ELSE JoinItems(l.items, o, def)

\* humanJoin(list, options) with humanJoin.optionDefaults = def.
humanJoin(l, o, def) ==
    IF IsNonArray(l)
    THEN Outcome(Return(StringOfList(l)), NoConf)
    ELSE IF Len(l.items) = 0
    THEN Outcome(Return(Str(<<>>)), NoConf)
    ELSE JoinItems(l.items, o, def)

\* The record as it is when the module is loaded, {}, installed again.
resetOptionDefaults_empty == [k \in DefaultNames |-> Undefined]

\* humanJoin.resetOptionDefaults(): the record it installs.
resetOptionDefaults ==
    [k \in DefaultNames |->
        CASE k = "separator"   -> Str(<<",", " ">>)
          [] k = "conjunction" -> Str(<<" ", "&", " ">>)
          [] k = "quoteWith"   -> False
          [] k = "mirrorQuote" -> True]

\* The array with its first item shifted off for good: the loop run on list
\* and not on the copy stringList.
ObjectsAfter_listShifted(l, o, def) ==
    [list           |-> IF IsArray(l) /\ Len(l.items) > 0 THEN Array(<<>>) ELSE l,
     options        |-> o,
     optionDefaults |-> def,
     mirrorMap      |-> mirrorMap]

\* The caller's list and options, humanJoin.optionDefaults and
\* humanJoin.mirrorMap as a call of humanJoin leaves them.  The function
\* reads list.length and list[i], the properties of options and of def, and
\* (through mirrorString) the mirror map; it assigns to its parameter
\* options, to its locals and to the items of its own array stringList,
\* which is also the array it shifts.
ObjectsAfter(l, o, def) ==
    [list           |-> l,
     options        |-> o,
     optionDefaults |-> def,
     mirrorMap      |-> mirrorMap]

---------------------------------------------------------------------------
(* humanJoin, release 0.0.1: no defaults record, and only a string or a   *)
(* number is taken for conjunction and quoteWith.  Its shortcuts and its  *)
(* two loops are those of release 0.1.1, line for line.                   *)

SetUpConfiguration_0_0_1(o) ==
    LET separator   == IF IsStringOrNumber(o.props.separator)
                       THEN Plus(Str(<<>>), o.props.separator) ELSE Str(<<",", " ">>)
        conjunction0 == IF IsStringOrNumber(o.props.conjunction)
                        THEN Plus(Str(<<>>), o.props.conjunction) ELSE Str(<<" ", "&", " ">>)
        conjunction1 == IF Truthy(o.props.noConjunction) THEN False ELSE conjunction0
        quoteWith   == IF IsStringOrNumber(o.props.quoteWith)
                       THEN Plus(Str(<<>>), o.props.quoteWith) ELSE False
        mirrorQuote == IF typeof(o.props.mirrorQuote) # "undefined"
                       THEN (IF Truthy(o.props.mirrorQuote) THEN True ELSE False)
                       ELSE True
    IN  Conf(separator, conjunction1, quoteWith, mirrorQuote)

humanJoin_0_0_1(l, o) ==
    IF IsNonArray(l)
    THEN Outcome(Return(StringOfList(l)), NoConf)
    ELSE IF Len(l.items) = 0
    THEN Outcome(Return(Str(<<>>)), NoConf)
    ELSE LET sane == SaneOptions(o)
         IN  IF ~CanRead(sane)
             THEN Outcome(Throw("TypeError"), NoConf)
             ELSE LET c0 == SetUpConfiguration_0_0_1(sane)
                      c  == [c0 EXCEPT !.conjunction = ApplyShortcuts(sane, c0.conjunction)]
                  IN  Outcome(Return(GenerateString(
                                         StringList(l.items, c.quoteWith, c.mirrorQuote),
                                         c.separator, c.conjunction)),
                              c)

---------------------------------------------------------------------------
(* The values the callers of the model pass. *)

RECURSIVE SeqsUpTo(_, _)
\* The sequences over S of length at most n.
SeqsUpTo(S, n) ==
    IF n = 0 THEN {<<>>}
    ELSE LET shorter == SeqsUpTo(S, n - 1)
         IN  shorter \cup {Append(s, x) : s \in {q \in shorter : Len(q) = n - 1}, x \in S}

\* The items of a list: a string and a number.
Items == {Str(<<"a">>), Num(42)}

\* The list arguments: arrays of up to MaxLen items, Arguments objects,
\* values that are no list at all, and the array ['a', 'b'].
Lists ==
    {Array(s) : s \in SeqsUpTo(Items, MaxLen)}
    \cup {Arguments(<<>>), Arguments(<<Str(<<"a">>)>>),
          Arguments(<<Str(<<"a">>), Num(42)>>)}
    \cup {Value(v) : v \in {Undefined, Null, Num(42), Str(<<"a">>)}}
    \cup {Array(<<Str(<<"a">>), Str(<<"b">>)>>)}

\* The values a caller gives the fields of an options record.
SeparatorValues   == {Undefined, Str(<<";">>), Num(0), Str(<<>>)}
ConjunctionValues == {Undefined, Str(<<"+">>), Num(0), Str(<<>>), False, True}
QuoteWithValues   == {Undefined, Str(<<"<", "(">>), Num(0), Str(<<>>), False, True}
MirrorQuoteValues == {Undefined, False, True}
Flags == {"noConjunction", "and", "or", "oxford", "oxfordAnd", "oxfordOr"}

\* Options records that set up to MaxFields fields and no flag.
FieldRecords ==
    {Record([k \in OptionNames |->
                CASE k = "separator"   -> f[1]
                  [] k = "conjunction" -> f[2]
                  [] k = "quoteWith"   -> f[3]
                  [] k = "mirrorQuote" -> f[4]
                  [] OTHER             -> Undefined]) :
        f \in {g \in SeparatorValues \X ConjunctionValues
                        \X QuoteWithValues \X MirrorQuoteValues :
                  Cardinality({i \in 1..4 : g[i] # Undefined}) <= MaxFields}}

\* Options records that set any of the flags to true, and those that set a
\* conjunction beside at most one flag.
FlagRecords ==
    {Record([k \in OptionNames |-> IF k \in on THEN True ELSE Undefined]) :
        on \in SUBSET Flags}
    \cup {Record([k \in OptionNames |->
                    CASE k = f             -> True
                      [] k = "conjunction" -> c
                      [] OTHER             -> Undefined]) :
            f \in Flags, c \in {Str(<<"+">>), False}}

\* Options records that quote with '<<', with and without mirroring.
QuoteRecords ==
    {Record([k \in OptionNames |->
                CASE k = "quoteWith"   -> Str(<<"<", "<">>)
                  [] k = "mirrorQuote" -> mq
                  [] OTHER             -> Undefined]) : mq \in {Undefined, False}}

OptionsValues ==
    {Omitted, NullOptions, NumberOptions, BooleanOptions, FunctionOptions, ArrayOptions}
    \cup {Shortcut(name) : name \in Flags \cup {"conjunction", "quoteWith", "other"}}
    \cup FieldRecords \cup FlagRecords \cup QuoteRecords

\* The characters of the strings handed to mirrorString: three keys of the
\* mirror map and two characters it does not hold.
MirrorAlphabet == {"<", "(", "!", "-", "+"}

\* The arguments of mirrorString: strings of up to MaxStr characters,
\* numbers, and values that are neither.
MirrorStringArguments ==
    {Str(s) : s \in SeqsUpTo(MirrorAlphabet, MaxStr)}
    \cup {Str(<<"U+00A1">>), Num(42), Num(0), Undefined, Null, True, False, Obj}

\* The arguments of mirrorCharacter: every key of the mirror map, characters
\* it does not hold, longer strings, the empty string, numbers, and values
\* that are neither strings nor numbers.
MirrorCharacterArguments ==
    {Str(<<c>>) : c \in DOMAIN mirrorMap \cup {"f", "+", "U+00A1", "U+00BF"}}
    \cup {Str(<<"f", "o", "u", "r">>), Str(<<"<", "f", "i", "v", "e">>), Str(<<>>),
          Num(42), Num(0), Num(-1), Undefined, Null, True, False, Obj}

\* The values a caller writes into a key of humanJoin.optionDefaults.
DefaultValues(k) ==
    CASE k = "separator"   -> {Str(<<"/">>)}
      [] k = "conjunction" -> {Str(<<" ", "a", "n", "d", " ">>)}
      [] k = "quoteWith"   -> {Str(<<"<">>)}
      [] k = "mirrorQuote" -> {False}

---------------------------------------------------------------------------
(* The state machine. *)

NoList == Value(Undefined)
NoResult == Return(Undefined)
NoObjects == ObjectsAfter(NoList, Omitted, [k \in DefaultNames |-> Undefined])

\* The caller keeps no reference to a defaults record.
NoReference ==
    [taken |-> FALSE, same |-> FALSE, reset |-> FALSE,
     record |-> [k \in DefaultNames |-> Undefined]]

\* The operations that are calls the caller moves on from.
Calls == {"humanJoin", "humanJoin_0_0_1", "mirrorCharacter", "mirrorString",
          "mirrorString(mirrorString)"}

\* No call has returned that the caller has yet to move on from.  The caller
\* takes its steps one at a time: after a call it moves on (Continue) before
\* its next operation.
Idle == called \notin Calls

\* The module is loaded: humanJoin.optionDefaults = {}.
Init ==
    /\ optionDefaults = [k \in DefaultNames |-> Undefined]
    /\ called = "load"
    /\ list = NoList
    /\ options = Omitted
    /\ conf = NoConf
    /\ result = NoResult
    /\ arg = Undefined
    /\ after = NoObjects
    /\ held = NoReference

\* The caller sets a key of the defaults record: humanJoin.optionDefaults.k
\* = v.  The object is the one a reference taken since the last reset
\* refers to.
SetOptionDefault(k, v) ==
    /\ optionDefaults' = [optionDefaults EXCEPT ![k] = v]
    /\ held' = IF held.same THEN [held EXCEPT !.record[k] = v] ELSE held
    /\ called' = "setOptionDefault"
    /\ list' = NoList
    /\ options' = Omitted
    /\ conf' = NoConf
    /\ result' = NoResult
    /\ arg' = Undefined
    /\ after' = NoObjects

\* The reset writing the four baseline values into the object that is the
\* record, which a reference taken earlier goes on referring to.
ResetOptionDefaults_inPlace ==
    /\ Idle
    /\ optionDefaults' = resetOptionDefaults
    /\ held' = IF held.taken
               THEN [held EXCEPT !.reset = TRUE,
                                 !.record = IF held.same THEN resetOptionDefaults
                                                         ELSE held.record]
               ELSE held
    /\ called' = "resetOptionDefaults"
    /\ list' = NoList
    /\ options' = Omitted
    /\ conf' = NoConf
    /\ result' = NoResult
    /\ arg' = Undefined
    /\ after' = NoObjects

\* humanJoin.resetOptionDefaults(): humanJoin.optionDefaults is assigned a
\* new object, so an object a reference was taken to is the record no more
\* and keeps what it holds.
ResetOptionDefaults ==
    /\ Idle
    /\ optionDefaults' = resetOptionDefaults
    /\ held' = IF held.taken THEN [held EXCEPT !.same = FALSE, !.reset = TRUE] ELSE held
    /\ called' = "resetOptionDefaults"
    /\ list' = NoList
    /\ options' = Omitted
    /\ conf' = NoConf
    /\ result' = NoResult
    /\ arg' = Undefined
    /\ after' = NoObjects

\* humanJoin holding on to the defaults record it found when the module was
\* loaded, {}, and reading that one on every call.
HumanJoin_defaultsAtLoad(l, o) ==
    LET out == humanJoin(l, o, [k \in DefaultNames |-> Undefined])
    IN  /\ called' = "humanJoin"
        /\ list' = l
        /\ options' = o
        /\ conf' = out.conf
        /\ result' = out.result
        /\ arg' = Undefined
        /\ after' = ObjectsAfter(l, o, optionDefaults)
        /\ optionDefaults' = after'.optionDefaults
        /\ UNCHANGED held

\* humanJoin(l, o), release 0.1.1
HumanJoin(l, o) ==
    LET out == humanJoin(l, o, optionDefaults)
    IN  /\ called' = "humanJoin"
        /\ list' = l
        /\ options' = o
        /\ conf' = out.conf
        /\ result' = out.result
        /\ arg' = Undefined
        /\ after' = ObjectsAfter(l, o, optionDefaults)
        /\ optionDefaults' = after'.optionDefaults
        /\ UNCHANGED held

\* humanJoin(l, o), release 0.0.1
HumanJoin_0_0_1(l, o) ==
    LET out == humanJoin_0_0_1(l, o)
    IN  /\ called' = "humanJoin_0_0_1"
        /\ list' = l
        /\ options' = o
        /\ conf' = out.conf
        /\ result' = out.result
        /\ arg' = Undefined
        /\ after' = ObjectsAfter(l, o, optionDefaults)
        /\ optionDefaults' = after'.optionDefaults
        /\ UNCHANGED held

\* humanJoin.mirrorCharacter(c)
MirrorCharacter(c) ==
    /\ called' = "mirrorCharacter"
    /\ arg' = c
    /\ result' = Return(mirrorCharacter(c))
    /\ list' = NoList
    /\ options' = Omitted
    /\ conf' = NoConf
    /\ after' = NoObjects
    /\ UNCHANGED <<optionDefaults, held>>

\* humanJoin.mirrorString(str)
MirrorString(str) ==
    /\ called' = "mirrorString"
    /\ arg' = str
    /\ result' = Return(mirrorString(str))
    /\ list' = NoList
    /\ options' = Omitted
    /\ conf' = NoConf
    /\ after' = NoObjects
    /\ UNCHANGED <<optionDefaults, held>>

\* humanJoin.mirrorString(m), m being what the last call of mirrorString
\* returned: arg stays the argument of that first call.
MirrorStringAgain ==
    /\ called = "mirrorString"
    /\ called' = "mirrorString(mirrorString)"
    /\ result' = Return(mirrorString(result.value))
    /\ UNCHANGED <<arg, list, options, conf, after, optionDefaults, held>>

\* The caller takes a reference to the record: var ref =
\* humanJoin.optionDefaults.
TakeReference ==
    /\ Idle
    /\ held' = [taken |-> TRUE, same |-> TRUE, reset |-> FALSE, record |-> optionDefaults]
    /\ called' = "takeReference"
    /\ list' = NoList
    /\ options' = Omitted
    /\ conf' = NoConf
    /\ result' = NoResult
    /\ arg' = Undefined
    /\ after' = NoObjects
    /\ UNCHANGED optionDefaults

\* The caller sets a key through its reference: ref.k = v.  The write
\* reaches humanJoin.optionDefaults when that is the object referred to.
SetThroughReference(k, v) ==
    /\ held.taken
    /\ held' = [held EXCEPT !.record[k] = v]
    /\ optionDefaults' = IF held.same THEN [optionDefaults EXCEPT ![k] = v]
                                      ELSE optionDefaults
    /\ called' = "setThroughReference"
    /\ list' = NoList
    /\ options' = Omitted
    /\ conf' = NoConf
    /\ result' = NoResult
    /\ arg' = Undefined
    /\ after' = NoObjects

\* The caller moves on from the call that returned (or threw).
Continue ==
    /\ ~Idle
    /\ called' = "continue"
    /\ list' = NoList
    /\ options' = Omitted
    /\ conf' = NoConf
    /\ result' = NoResult
    /\ arg' = Undefined
    /\ after' = NoObjects
    /\ UNCHANGED <<optionDefaults, held>>

\* The caller writes one of the keys of the defaults record.
WriteOptionDefault ==
    Idle /\ \E k \in DefaultNames : \E v \in DefaultValues(k) : SetOptionDefault(k, v)

\* The caller calls humanJoin of release 0.1.1.
CallHumanJoin ==
    Idle /\ \E l \in Lists, o \in OptionsValues : HumanJoin(l, o)

\* The caller writes one of the keys through its reference.
WriteThroughReference ==
    Idle /\ \E k \in DefaultNames : \E v \in DefaultValues(k) : SetThroughReference(k, v)

\* The caller calls humanJoin of release 0.1.1 without options.
CallHumanJoinWithoutOptions ==
    Idle /\ \E l \in Lists : HumanJoin(l, Omitted)

\* The caller calls mirrorCharacter.
CallMirrorCharacter ==
    Idle /\ \E c \in MirrorCharacterArguments : MirrorCharacter(c)

\* The caller calls mirrorString.
CallMirrorString ==
    Idle /\ \E str \in MirrorStringArguments : MirrorString(str)

\* The caller calls humanJoin of release 0.0.1.
CallHumanJoin_0_0_1 ==
    Idle /\ \E l \in Lists, o \in OptionsValues : HumanJoin_0_0_1(l, o)

\* A process that loaded release 0.1.1.
Next ==
    \/ WriteOptionDefault
    \/ ResetOptionDefaults
    \/ CallHumanJoin
    \/ CallMirrorCharacter
    \/ CallMirrorString
    \/ MirrorStringAgain
    \/ Continue

Spec == Init /\ [][Next]_vars

\* A process that loaded release 0.1.1 and whose caller keeps a reference
\* to the defaults record.
Next_Reference ==
    \/ WriteOptionDefault
    \/ ResetOptionDefaults
    \/ TakeReference
    \/ WriteThroughReference
    \/ CallHumanJoinWithoutOptions
    \/ Continue

Spec_Reference == Init /\ [][Next_Reference]_vars

\* A process that loaded release 0.0.1, which has no defaults record.
Next_0_0_1 ==
    \/ CallHumanJoin_0_0_1
    \/ Continue

Spec_0_0_1 == Init /\ [][Next_0_0_1]_vars

---------------------------------------------------------------------------
(* What the properties are stated with. *)

RECURSIVE Flatten(_)
\* The concatenation of a sequence of strings.
Flatten(ss) == IF ss = <<>> THEN <<>> ELSE Head(ss) \o Flatten(Tail(ss))

\* The last call was humanJoin of release 0.1.1 on an array.
JoinedArray == called = "humanJoin" /\ list.kind = "array"

\* The call resolved a configuration (it got past the short-circuits and
\* the reading of the options).
Resolved == conf # NoConf

\* Quoting is enabled under configuration c: the quote is neither the
\* disabled sentinel false nor the empty string.
Quoting(c) == c.quoteWith # False /\ c.quoteWith # Str(<<>>)

\* Item x coerced to a string, and quoted under c if quoting is enabled.
Emitted(x, c) ==
    IF Quoting(c)
    THEN ToStr(c.quoteWith) \o ToStr(x)
         \o (IF c.mirrorQuote = True THEN mirrorString(c.quoteWith).s
                                     ELSE ToStr(c.quoteWith))
    ELSE ToStr(x)

\* The delimiter after item i of n under c: the conjunction between the
\* final pair unless it is disabled, the separator everywhere else.
Delimiter(i, n, c) ==
    IF i = n - 1 /\ c.conjunction # False
    THEN ToStr(c.conjunction)
    ELSE ToStr(c.separator)

\* Items in their order with n - 1 delimiters between them.
Joined(items, c) ==
    LET n == Len(items)
    IN  Flatten([k \in 1..(2 * n - 1) |->
                    IF k % 2 = 1 THEN Emitted(items[(k + 1) \div 2], c)
                                 ELSE Delimiter(k \div 2, n, c)])

RECURSIVE ArrayJoin(_, _)
\* Array.prototype.join of the coerced items.
ArrayJoin(items, sep) ==
    IF Len(items) = 0 THEN <<>>
    ELSE IF Len(items) = 1 THEN ToStr(items[1])
    ELSE ToStr(items[1]) \o sep \o ArrayJoin(Tail(items), sep)

\* The default configuration.
DefaultConf == Conf(Str(<<",", " ">>), Str(<<" ", "&", " ">>), False, True)

---------------------------------------------------------------------------
(* C1: for an array of n >= 1 items and the configuration the call          *)
(* resolved, humanJoin returns the items in their order, each coerced and   *)
(* quoted if quoting is enabled, with n - 1 delimiters: the separator       *)
(* between every pair but the final one, the conjunction (the separator if  *)
(* it is disabled) between the final pair; under the default configuration  *)
(* and n >= 2 that is items[0..n-2].join(", ") + " & " + items[n-1].        *)
C1_JoinedInOrder ==
    (JoinedArray /\ Len(list.items) >= 1 /\ Resolved) =>
        /\ result = Return(Str(Joined(list.items, conf)))
        /\ (conf = DefaultConf /\ Len(list.items) >= 2) =>
              result.value.s =
                  ArrayJoin(SubSeq(list.items, 1, Len(list.items) - 1), <<",", " ">>)
                  \o <<" ", "&", " ">> \o ToStr(list.items[Len(list.items)])

\* Three items, quoted with mirroring, joined by a custom separator and the
\* default conjunction.
C1_Witness ==
    /\ JoinedArray
    /\ list.items = <<Str(<<"a">>), Num(42), Str(<<"a">>)>>
    /\ conf = Conf(Str(<<";">>), Str(<<" ", "&", " ">>), Str(<<"<", "(">>), True)
    /\ result = Return(Str(<<"<", "(", "a", ")", ">", ";",
                             "<", "(", "4", "2", ")", ">", " ", "&", " ",
                             "<", "(", "a", ")", ">">>))

---------------------------------------------------------------------------
\* The last call was of a joiner, of either release.
Joined_ == called \in {"humanJoin", "humanJoin_0_0_1"}

(* C2: humanJoin never raises an error: for every list, every options      *)
(* value and every state of the defaults record the call returns a string. *)
C2_NeverThrows ==
    Joined_ => (~result.threw /\ result.value.t = "string")

---------------------------------------------------------------------------
\* What a call of the last call's joiner with the same list and no options
\* gives.
WithoutOptions ==
    IF called = "humanJoin"
    THEN humanJoin(list, Omitted, optionDefaults).result
    ELSE humanJoin_0_0_1(list, Omitted).result

(* C3: when options is neither omitted, nor a string, nor a configuration  *)
(* record (a number, a boolean, a function, null), humanJoin(list,         *)
(* options) returns what humanJoin(list) returns.                          *)
C3_OtherShapesAreNoOptions ==
    (Joined_ /\ options.kind \in {"number", "boolean", "function", "null"}) =>
        result = WithoutOptions

---------------------------------------------------------------------------
\* The text of String(list) for a list that is no array.
StringOf(l) ==
    CASE l.kind = "arguments" ->
            <<"[","o","b","j","e","c","t"," ","A","r","g","u","m","e","n","t","s","]">>
      [] l.v = Undefined      -> <<"u","n","d","e","f","i","n","e","d">>
      [] l.v = Null           -> <<"n","u","l","l">>
      [] l.v = Num(42)        -> <<"4","2">>
      [] l.v = Str(<<"a">>)   -> <<"a">>

---------------------------------------------------------------------------
(* C5: the list can be an Arguments object as well as an array: an         *)
(* Arguments object holding e1..en is joined element by element and gives  *)
(* what the array [e1..en] gives.                                          *)
C5_ArgumentsJoinedLikeArray ==
    (called = "humanJoin" /\ list.kind = "arguments") =>
        result = humanJoin(Array(list.items), options, optionDefaults).result

---------------------------------------------------------------------------
(* C6: humanJoin([]) returns the empty string for every options value and  *)
(* every state of the defaults record.                                     *)
C6_EmptyArrayIsEmptyString ==
    (called = "humanJoin" /\ list = Array(<<>>)) => result = Return(Str(<<>>))

\* The empty array joined with options null under defaults that quote.
C6_Witness ==
    /\ called = "humanJoin"
    /\ list = Array(<<>>)
    /\ options = NullOptions
    /\ optionDefaults.quoteWith = Str(<<"<">>)
    /\ result = Return(Str(<<>>))

---------------------------------------------------------------------------
(* C7: for every array of exactly one item and every configuration the     *)
(* call resolved, humanJoin returns the coerced string of the item with no *)
(* separator and no conjunction.  As claimed: exactly the coerced string.  *)
C7_SingleItemIsCoercedString ==
    (JoinedArray /\ Len(list.items) = 1 /\ Resolved) =>
        result = Return(Str(ToStr(list.items[1])))

\* As amended: the coerced string, between the quote and its closing when
\* quoting is enabled.
C7_SingleItemIsEmittedAlone ==
    (JoinedArray /\ Len(list.items) = 1 /\ Resolved) =>
        result = Return(Str(Emitted(list.items[1], conf)))

\* One item under a configuration that quotes with mirroring.
C7_Witness ==
    /\ JoinedArray
    /\ list.items = <<Str(<<"a">>)>>
    /\ conf.quoteWith = Str(<<"<", "(">>)
    /\ conf.mirrorQuote = True
    /\ result = Return(Str(<<"<", "(", "a", ")", ">">>))

---------------------------------------------------------------------------
\* Key k as the caller gave it in the options: a property of a record, true
\* for a string naming it, undefined otherwise.
Given(k) ==
    CASE options.kind = "object" -> options.props[k]
      [] options.kind = "string" /\ options.key = k -> True
      [] OTHER -> Undefined

\* The flags that set a conjunction, and the conjunction each sets.
ConjunctionShortcuts == {"and", "or", "oxford", "oxfordAnd", "oxfordOr"}

ShortcutConjunction(f) ==
    CASE f = "and"       -> Str(<<" ", "a", "n", "d", " ">>)
      [] f = "or"        -> Str(<<" ", "o", "r", " ">>)
      [] f = "oxford"    -> Str(<<",", " ", "a", "n", "d", " ">>)
      [] f = "oxfordAnd" -> Str(<<",", " ", "a", "n", "d", " ">>)
      [] f = "oxfordOr"  -> Str(<<",", " ", "o", "r", " ">>)

\* The conjunction shortcuts that are truthy in the options.
ShortcutsGiven == {f \in ConjunctionShortcuts : Truthy(Given(f))}

\* The items with the separator of c between every pair, the final one too.
Separated(items, c) == Joined(items, [c EXCEPT !.conjunction = False])

(* C8: whenever noConjunction is truthy in the options (a record field or  *)
(* the string 'noConjunction'), the conjunction is disabled and the        *)
(* separator stands between the final pair.  As claimed: whatever other    *)
(* fields and flags the same call sets.                                    *)
C8_NoConjunctionWhateverElse ==
    (JoinedArray /\ Len(list.items) >= 2 /\ Resolved /\ Truthy(Given("noConjunction"))) =>
        /\ conf.conjunction = False
        /\ result = Return(Str(Separated(list.items, conf)))

\* As amended: whatever fields the same call sets, when it sets none of the
\* flags and, or, oxford, oxfordAnd, oxfordOr.
C8_NoConjunctionUnlessShortcut ==
    (JoinedArray /\ Len(list.items) >= 2 /\ Resolved
        /\ Truthy(Given("noConjunction")) /\ ShortcutsGiven = {}) =>
        /\ conf.conjunction = False
        /\ result = Return(Str(Separated(list.items, conf)))

\* noConjunction beside a conjunction field, under a default conjunction.
C8_Witness ==
    /\ JoinedArray
    /\ list.items = <<Str(<<"a">>), Num(42), Str(<<"a">>)>>
    /\ options.kind = "object"
    /\ options.props.noConjunction = True
    /\ options.props.conjunction = Str(<<"+">>)
    /\ optionDefaults.conjunction = Str(<<" ", "a", "n", "d", " ">>)
    /\ result = Return(Str(<<"a", ",", " ", "4", "2", ",", " ", "a">>))

---------------------------------------------------------------------------
\* The conjunction a call uses when its options say nothing about one:
\* that of the defaults record in release 0.1.1, ' & ' without one.
DefaultConjunction ==
    IF called = "humanJoin" /\ IsStringNumberOrBoolean(optionDefaults.conjunction)
    THEN (IF optionDefaults.conjunction.t = "number"
          THEN Str(ToStr(optionDefaults.conjunction))
          ELSE optionDefaults.conjunction)
    ELSE Str(<<" ", "&", " ">>)

(* C9: conjunction: false in the options disables the conjunction: the     *)
(* separator stands between every pair, the final one too; leaving the     *)
(* conjunction unset uses the default conjunction.                         *)
C9_ConjunctionFalseDisables ==
    (Joined_ /\ list.kind = "array" /\ Len(list.items) >= 2 /\ options.kind = "object"
        /\ ShortcutsGiven = {} /\ ~Truthy(Given("noConjunction"))) =>
        /\ Given("conjunction") = False =>
              /\ conf.conjunction = False
              /\ result = Return(Str(Separated(list.items, conf)))
        /\ Given("conjunction") = Undefined =>
              conf.conjunction = DefaultConjunction

\* Release 0.1.1 joins three items with conjunction: false by the separator alone.
C9_Witness_0_1_1 ==
    /\ JoinedArray
    /\ list.items = <<Str(<<"a">>), Num(42), Str(<<"a">>)>>
    /\ Given("conjunction") = False
    /\ Given("separator") = Str(<<";">>)
    /\ result = Return(Str(<<"a", ";", "4", "2", ";", "a">>))

---------------------------------------------------------------------------
\* A value a separator can be set to, and one a conjunction or a quote can.
IsText(v) == v.t \in {"string", "number"}
IsTextOrBoolean(v) == v.t \in {"string", "number", "boolean"}

\* A number as the string it is coerced to, any other value as it is.
Stringified(v) == IF v.t = "number" THEN Str(ToStr(v)) ELSE v

\* The sources of a field in the order of their precedence, the last one
\* the hard default: the first that is usable wins.
Winner(given, default, hard, acceptsBoolean) ==
    LET usable(v) == IF acceptsBoolean THEN IsTextOrBoolean(v) ELSE IsText(v)
    IN  Stringified(CASE usable(given)   -> given
                      [] usable(default) -> default
                      [] OTHER           -> hard)

(* C10: the configuration is resolved per call, later sources winning: the *)
(* hard defaults (', ', ' & ', no quoting, mirroring), the defaults        *)
(* record, the fields of the options, the shortcut flags.  A field of the  *)
(* options overrides the same field of the defaults record, and a truthy   *)
(* shortcut flag overrides any conjunction a field or a default set.       *)
C10_LaterSourceWins ==
    (called = "humanJoin" /\ Resolved) =>
        /\ conf.separator =
              Winner(Given("separator"), optionDefaults.separator, Str(<<",", " ">>), FALSE)
        /\ (ShortcutsGiven = {} /\ ~Truthy(Given("noConjunction"))) =>
              conf.conjunction =
                  Winner(Given("conjunction"), optionDefaults.conjunction,
                         Str(<<" ", "&", " ">>), TRUE)
        /\ (ShortcutsGiven = {} /\ Truthy(Given("noConjunction"))) =>
              conf.conjunction = False
        /\ ShortcutsGiven # {} =>
              conf.conjunction \in {ShortcutConjunction(f) : f \in ShortcutsGiven}
        /\ conf.quoteWith =
              Winner(Given("quoteWith"), optionDefaults.quoteWith, False, TRUE)
        /\ conf.mirrorQuote =
              CASE Given("mirrorQuote") # Undefined -> Bool(Truthy(Given("mirrorQuote")))
                [] optionDefaults.mirrorQuote.t = "boolean" -> optionDefaults.mirrorQuote
                [] OTHER -> True

\* A default separator and a default conjunction are set; the call gives a
\* conjunction field and the flag oxford: the flag wins over the field and
\* the default, the default separator over the hard one.
C10_Witness ==
    /\ called = "humanJoin"
    /\ optionDefaults.separator = Str(<<"/">>)
    /\ optionDefaults.conjunction = Str(<<" ", "a", "n", "d", " ">>)
    /\ Given("conjunction") = Str(<<"+">>)
    /\ Given("oxford") = True
    /\ list.items = <<Str(<<"a">>), Num(42), Str(<<"a">>)>>
    /\ conf.separator = Str(<<"/">>)
    /\ conf.conjunction = Str(<<",", " ", "a", "n", "d", " ">>)
    /\ result = Return(Str(<<"a", "/", "4", "2", ",", " ", "a", "n", "d", " ", "a">>))

---------------------------------------------------------------------------
\* The shortcut flag tested last among those that are truthy in the options,
\* in the order and, or, oxford/oxfordAnd, oxfordOr.
LastShortcut ==
    CASE "oxfordOr" \in ShortcutsGiven                       -> "oxfordOr"
      [] {"oxford", "oxfordAnd"} \cap ShortcutsGiven # {}    -> "oxford"
      [] "or" \in ShortcutsGiven                             -> "or"
      [] OTHER                                               -> "and"

(* C11: when several conjunction shortcut flags are truthy in one call,    *)
(* the one tested last wins, in the order and, or, oxford/oxfordAnd,       *)
(* oxfordOr: {and, or} gives ' or ', {oxfordOr, and} gives ', or ', and    *)
(* oxfordOr wins over every other combination of flags.                    *)
C11_LastShortcutWins ==
    (JoinedArray /\ Resolved /\ ShortcutsGiven # {}) =>
        /\ conf.conjunction = ShortcutConjunction(LastShortcut)
        /\ ShortcutsGiven = {"and", "or"} => conf.conjunction = Str(<<" ", "o", "r", " ">>)
        /\ "oxfordOr" \in ShortcutsGiven =>
              conf.conjunction = Str(<<",", " ", "o", "r", " ">>)
        /\ result = Return(Str(Joined(list.items,
                                       [conf EXCEPT !.conjunction =
                                            ShortcutConjunction(LastShortcut)])))

\* The flags oxfordOr and and in one record: ', or ' stands before the last
\* item.
C11_Witness ==
    /\ JoinedArray
    /\ list.items = <<Str(<<"a">>), Num(42), Str(<<"a">>)>>
    /\ ShortcutsGiven = {"oxfordOr", "and"}
    /\ optionDefaults.conjunction = Undefined
    /\ result = Return(Str(<<"a", ",", " ", "4", "2", ",", " ", "o", "r", " ", "a">>))

---------------------------------------------------------------------------
\* The strings ss in their order with the delimiters of c between them.
Interleaved(ss, c) ==
    LET n == Len(ss)
    IN  Flatten([k \in 1..(2 * n - 1) |->
                    IF k % 2 = 1 THEN ss[(k + 1) \div 2] ELSE Delimiter(k \div 2, n, c)])

\* The coerced string of item x between the quote string Q and its closing.
Wrapped(x, Q, mirrored) ==
    IF mirrored THEN Q \o ToStr(x) \o mirrorString(Str(Q)).s
                ELSE Q \o ToStr(x) \o Q

(* C12: when quoting is enabled with quote string Q, every item's coerced  *)
(* string s is emitted as Q + s + mirrorString(Q) if the mirror-quote flag *)
(* is true and as Q + s + Q if it is false; when quoting is disabled, or Q *)
(* is the empty string, the items are emitted unwrapped and the flag has   *)
(* no effect on the output.                                                *)
C12_QuotedAndMirrored ==
    (JoinedArray /\ Resolved) =>
        /\ (conf.quoteWith.t = "string" /\ conf.quoteWith.s # <<>>) =>
              result = Return(Str(Interleaved(
                          [i \in 1..Len(list.items) |->
                              Wrapped(list.items[i], conf.quoteWith.s, conf.mirrorQuote.b)],
                          conf)))
        /\ (conf.quoteWith = False \/ conf.quoteWith = Str(<<>>)) =>
              result = Return(Str(Interleaved(
                          [i \in 1..Len(list.items) |-> ToStr(list.items[i])], conf)))

\* Two items quoted with '<(' and mirroring switched off.
C12_Witness ==
    /\ JoinedArray
    /\ list.items = <<Str(<<"a">>), Num(42)>>
    /\ conf.quoteWith = Str(<<"<", "(">>)
    /\ conf.mirrorQuote = False
    /\ result = Return(Str(<<"<", "(", "a", "<", "(", " ", "&", " ",
                             "<", "(", "4", "2", "<", "(">>))

---------------------------------------------------------------------------
\* The call of the example: the array ['a', 'b'], an options record that sets
\* quoteWith to '<<' and at most mirrorQuote beside it, and a defaults
\* record that is empty or holds the baseline.
QuoteExample ==
    /\ JoinedArray
    /\ list.items = <<Str(<<"a">>), Str(<<"b">>)>>
    /\ optionDefaults \in {[k \in DefaultNames |-> Undefined], DefaultConf}
    /\ options.kind = "object"
    /\ \A k \in OptionNames \ {"quoteWith", "mirrorQuote"} : options.props[k] = Undefined
    /\ options.props.quoteWith = Str(<<"<", "<">>)

(* C13: with an otherwise default configuration,                           *)
(* humanJoin(['a', 'b'], {quoteWith: '<<'}) returns '<<a>>, <<b>>', and    *)
(* with mirrorQuote: false added it returns '<<a<<, <<b<<'.                *)
C13_QuoteExample ==
    QuoteExample =>
        /\ options.props.mirrorQuote = Undefined =>
              result = Return(Str(<<"<", "<", "a", ">", ">", ",", " ",
                                    "<", "<", "b", ">", ">">>))
        /\ options.props.mirrorQuote = False =>
              result = Return(Str(<<"<", "<", "a", "<", "<", ",", " ",
                                    "<", "<", "b", "<", "<">>))

\* As amended: the two items are the final pair, so the default conjunction
\* ' & ' stands between them: '<<a>> & <<b>>' and '<<a<< & <<b<<'.
C13_QuoteExampleWithConjunction ==
    QuoteExample =>
        /\ options.props.mirrorQuote = Undefined =>
              result = Return(Str(<<"<", "<", "a", ">", ">", " ", "&", " ",
                                    "<", "<", "b", ">", ">">>))
        /\ options.props.mirrorQuote = False =>
              result = Return(Str(<<"<", "<", "a", "<", "<", " ", "&", " ",
                                    "<", "<", "b", "<", "<">>))

\* The call of the example, mirrored.
C13_Witness ==
    /\ JoinedArray
    /\ list.items = <<Str(<<"a">>), Str(<<"b">>)>>
    /\ options \in QuoteRecords
    /\ options.props.mirrorQuote = Undefined
    /\ optionDefaults = [k \in DefaultNames |-> Undefined]
    /\ result.value.s = <<"<", "<", "a", ">", ">", " ", "&", " ", "<", "<", "b", ">", ">">>

---------------------------------------------------------------------------
\* The options of the last call with the number under key k replaced by the
\* string of its decimal digits.
WithString(k) ==
    [options EXCEPT !.props[k] = Str(NumberToStr(options.props[k].n))]

\* Nothing in the options of the last call overrides its conjunction field.
ConjunctionFieldStands == ShortcutsGiven = {} /\ ~Truthy(Given("noConjunction"))

(* C14: a number given for separator, conjunction or quoteWith is used as  *)
(* its decimal string, exactly like the equal string value (separator 0    *)
(* joins with '0', conjunction 0 puts '0' before the last item, quoteWith  *)
(* 0 wraps each item in '0'...'0'), and an empty-string separator or       *)
(* conjunction is honoured as an empty delimiter, not replaced by the      *)
(* default.                                                                *)
C14_NumbersAndEmptyStrings ==
    (JoinedArray /\ Resolved /\ options.kind = "object") =>
        /\ \A k \in {"separator", "conjunction", "quoteWith"} :
              Given(k).t = "number" =>
                  result = humanJoin(list, WithString(k), optionDefaults).result
        /\ Given("separator") = Num(0) => conf.separator = Str(<<"0">>)
        /\ Given("separator") = Str(<<>>) => conf.separator = Str(<<>>)
        /\ (Given("conjunction") = Num(0) /\ ConjunctionFieldStands) =>
              conf.conjunction = Str(<<"0">>)
        /\ (Given("conjunction") = Str(<<>>) /\ ConjunctionFieldStands) =>
              conf.conjunction = Str(<<>>)
        /\ Given("quoteWith") = Num(0) =>
              /\ conf.quoteWith = Str(<<"0">>)
              /\ result = Return(Str(Interleaved(
                      [i \in 1..Len(list.items) |->
                          <<"0">> \o ToStr(list.items[i]) \o <<"0">>], conf)))
        /\ (Given("separator") \in {Num(0), Str(<<>>)}
              \/ (Given("conjunction") \in {Num(0), Str(<<>>)} /\ ConjunctionFieldStands)) =>
              result = Return(Str(Joined(list.items, conf)))

\* The separator 0 and the conjunction '' in one call: '0' between the first
\* pair and nothing between the last.
C14_Witness ==
    /\ JoinedArray
    /\ list.items = <<Str(<<"a">>), Num(42), Str(<<"a">>)>>
    /\ Given("separator") = Num(0)
    /\ Given("conjunction") = Str(<<>>)
    /\ optionDefaults.separator = Str(<<"/">>)
    /\ optionDefaults.conjunction = Str(<<" ", "a", "n", "d", " ">>)
    /\ result = Return(Str(<<"a", "0", "4", "2", "a">>))

---------------------------------------------------------------------------
\* A value the mirror helpers take for text.
IsStringy(v) == v.t \in {"string", "number"}

\* Character ch as the mirror map has it: its entry, or ch itself.
Mirrored(ch) == IF ch \in DOMAIN mirrorMap THEN mirrorMap[ch] ELSE ch

(* C15: mirrorCharacter(c) returns the empty string when c is neither a    *)
(* string nor a number, or is the empty string; otherwise it takes the     *)
(* first character of the string form of c and returns its entry in the    *)
(* mirror map if there is one, that character unchanged if not: '<' gives  *)
(* '>', 'f' gives 'f', '<five' gives '>', 42 gives '4'.                    *)
C15_MirrorCharacter ==
    called = "mirrorCharacter" =>
        /\ (~IsStringy(arg) \/ arg = Str(<<>>)) => result = Return(Str(<<>>))
        /\ (IsStringy(arg) /\ arg # Str(<<>>)) =>
              result = Return(Str(<<Mirrored(Head(ToStr(arg)))>>))
        /\ arg = Str(<<"<">>) => result = Return(Str(<<">">>))
        /\ arg = Str(<<"f">>) => result = Return(Str(<<"f">>))
        /\ arg = Str(<<"<", "f", "i", "v", "e">>) => result = Return(Str(<<">">>))
        /\ arg = Num(42) => result = Return(Str(<<"4">>))

\* A long string that starts with a key of the map.
C15_Witness ==
    /\ called = "mirrorCharacter"
    /\ arg = Str(<<"<", "f", "i", "v", "e">>)
    /\ result = Return(Str(<<">">>))

---------------------------------------------------------------------------
(* C16: mirrorString(s) returns the empty string when s is neither a       *)
(* string nor a number; otherwise it returns the characters of the string  *)
(* form of s in reverse order, each replaced by mirrorCharacter of it:     *)
(* '<(' gives ')>', '-<' gives '>-', '--+' gives '+--'; when s holds no    *)
(* key of the map the result is exactly the reversed string.               *)
C16_MirrorString ==
    called = "mirrorString" =>
        /\ ~IsStringy(arg) => result = Return(Str(<<>>))
        /\ IsStringy(arg) =>
              LET s == ToStr(arg)
                  n == Len(s)
              IN  /\ ~result.threw
                  /\ result.value.t = "string"
                  /\ result.value.s =
                        [i \in 1..n |-> mirrorCharacter(Str(<<s[n + 1 - i]>>)).s[1]]
                  /\ (\A i \in 1..n : s[i] \notin DOMAIN mirrorMap) =>
                        result.value.s = [i \in 1..n |-> s[n + 1 - i]]
        /\ arg = Str(<<"<", "(">>) => result = Return(Str(<<")", ">">>))
        /\ arg = Str(<<"-", "<">>) => result = Return(Str(<<">", "-">>))
        /\ arg = Str(<<"-", "-", "+">>) => result = Return(Str(<<"+", "-", "-">>))

\* A string of a character the map does not hold and two it does.
C16_Witness ==
    /\ called = "mirrorString"
    /\ arg = Str(<<"-", "<", "(">>)
    /\ result = Return(Str(<<")", ">", "-">>))

---------------------------------------------------------------------------
\* The last call mirrored what mirrorString had returned for the string arg.
MirroredTwice == called = "mirrorString(mirrorString)" /\ arg.t = "string"

(* C17: mirroring is its own inverse: mirrorString(mirrorString(s)) equals *)
(* s for every string s composed only of characters that are keys of the   *)
(* mirror map or that mirror to themselves.                                *)
C17_MirrorTwiceIsIdentity ==
    (MirroredTwice /\ \A i \in 1..Len(arg.s) :
                         arg.s[i] \in DOMAIN mirrorMap \/ Mirrored(arg.s[i]) = arg.s[i]) =>
        result = Return(arg)

\* As amended: for every string s that holds neither '!' nor '?', the two
\* keys whose mirrors are no keys of the map.
C17_MirrorTwiceIsIdentityButMarks ==
    (MirroredTwice /\ \A i \in 1..Len(arg.s) : arg.s[i] \notin {"!", "?"}) =>
        result = Return(arg)

\* A string of two keys of the map and a character it does not hold.
C17_Witness ==
    /\ MirroredTwice
    /\ arg = Str(<<"<", "(", "-">>)
    /\ result = Return(Str(<<"<", "(", "-">>))

---------------------------------------------------------------------------
(* C18: after any sequence of mutations of the defaults record,            *)
(* resetOptionDefaults() restores it to the baseline (separator ', ',      *)
(* conjunction ' & ', quoteWith false, mirrorQuote true), and every later  *)
(* humanJoin(list) with no options returns the baseline output again.      *)
C18_ResetRestoresBaseline ==
    /\ called = "resetOptionDefaults" =>
          /\ optionDefaults.separator = Str(<<",", " ">>)
          /\ optionDefaults.conjunction = Str(<<" ", "&", " ">>)
          /\ optionDefaults.quoteWith = False
          /\ optionDefaults.mirrorQuote = True
    /\ (JoinedArray /\ Len(list.items) >= 1 /\ options = Omitted
          /\ optionDefaults = DefaultConf) =>
          /\ conf = DefaultConf
          /\ result = Return(Str(
                  IF Len(list.items) = 1 THEN ToStr(list.items[1])
                  ELSE ArrayJoin(SubSeq(list.items, 1, Len(list.items) - 1), <<",", " ">>)
                       \o <<" ", "&", " ">> \o ToStr(list.items[Len(list.items)])))

\* A call without options on the record the reset installed, which no write
\* of the caller produces.
C18_Witness ==
    /\ JoinedArray
    /\ list.items = <<Str(<<"a">>), Num(42), Str(<<"a">>)>>
    /\ options = Omitted
    /\ optionDefaults = DefaultConf
    /\ result = Return(Str(<<"a", ",", " ", "4", "2", " ", "&", " ", "a">>))

---------------------------------------------------------------------------
(* C19: humanJoin reads the defaults record afresh on every call: in any   *)
(* sequence of mutations, resets and joins, a join that does not override  *)
(* a field uses the value the field holds in the record at the moment of   *)
(* the call, and a mutation applies to every later call until the record   *)
(* is reset or the field is overridden per call.                           *)
C19_DefaultsReadAfresh ==
    (called = "humanJoin" /\ Resolved) =>
        /\ (Given("separator") = Undefined /\ optionDefaults.separator # Undefined) =>
              conf.separator = optionDefaults.separator
        /\ (Given("conjunction") = Undefined /\ ConjunctionFieldStands
              /\ optionDefaults.conjunction # Undefined) =>
              conf.conjunction = optionDefaults.conjunction
        /\ (Given("quoteWith") = Undefined /\ optionDefaults.quoteWith # Undefined) =>
              conf.quoteWith = optionDefaults.quoteWith
        /\ (Given("mirrorQuote") = Undefined /\ optionDefaults.mirrorQuote # Undefined) =>
              conf.mirrorQuote = optionDefaults.mirrorQuote
        /\ (options = Omitted /\ \A k \in DefaultNames : optionDefaults[k] # Undefined) =>
              result = Return(Str(Joined(list.items, optionDefaults)))

\* The default conjunction was set to ' and ' and a quote to '<' after a
\* reset; the call gives no options.
C19_Witness ==
    /\ JoinedArray
    /\ list.items = <<Str(<<"a">>), Num(42), Str(<<"a">>)>>
    /\ options = Omitted
    /\ optionDefaults = [DefaultConf EXCEPT !.conjunction = Str(<<" ", "a", "n", "d", " ">>),
                                            !.quoteWith = Str(<<"<">>)]
    /\ result = Return(Str(<<"<", "a", ">", ",", " ", "<", "4", "2", ">",
                             " ", "a", "n", "d", " ", "<", "a", ">">>))

---------------------------------------------------------------------------
---------------------------------------------------------------------------
(* C21: the defaults record is initialised to the baseline: before any     *)
(* mutation or reset its value equals the value it has after               *)
(* resetOptionDefaults() (separator ', ', conjunction ' & ', quoteWith     *)
(* false, mirrorQuote true).                                               *)
C21_InitialisedToBaseline ==
    called = "load" =>
        /\ optionDefaults = resetOptionDefaults
        /\ optionDefaults.separator = Str(<<",", " ">>)
        /\ optionDefaults.conjunction = Str(<<" ", "&", " ">>)
        /\ optionDefaults.quoteWith = False
        /\ optionDefaults.mirrorQuote = True

---------------------------------------------------------------------------
(* C22: after the configuration is resolved, for every options value and   *)
(* every content of the defaults record, the separator is a string, the    *)
(* conjunction a string or false, the quote a string or false, and the     *)
(* mirror flag a boolean: no other value, such as the boolean true, is     *)
(* ever concatenated into the output as a conjunction or a quote.          *)
C22_ResolvedTypes ==
    (called = "humanJoin" /\ Resolved) =>
        /\ conf.separator.t = "string"
        /\ conf.conjunction.t = "string" \/ conf.conjunction = False
        /\ conf.quoteWith.t = "string" \/ conf.quoteWith = False
        /\ conf.mirrorQuote.t = "boolean"

---------------------------------------------------------------------------
(* C23: resetOptionDefaults() installs a new defaults record and does not  *)
(* clear the existing one: the record object that was current before the   *)
(* reset is left unmodified, and a write made after the reset through a    *)
(* reference to that earlier record has no effect on any later humanJoin   *)
(* call.                                                                   *)
C23_ResetInstallsNewRecord ==
    [][/\ (called' = "resetOptionDefaults" /\ held.taken) =>
              held'.record = held.record
       /\ (called' = "setThroughReference" /\ held.reset) =>
              optionDefaults' = optionDefaults
       /\ (called' = "humanJoin" /\ held.reset /\ conf' # NoConf) =>
              /\ optionDefaults' = optionDefaults
              /\ conf' = [k \in DefaultNames |->
                            IF optionDefaults[k] # Undefined THEN optionDefaults[k]
                            ELSE DefaultConf[k]]
              /\ result' = Return(Str(Joined(list'.items, conf')))
    ]_vars

\* The caller took a reference, reset the record and wrote a separator and a
\* conjunction through the reference: the call after that uses the baseline.
C23_Witness ==
    /\ JoinedArray
    /\ list.items = <<Str(<<"a">>), Num(42), Str(<<"a">>)>>
    /\ options = Omitted
    /\ held.taken /\ held.reset
    /\ held.record.separator = Str(<<"/">>)
    /\ held.record.conjunction = Str(<<" ", "a", "n", "d", " ">>)
    /\ optionDefaults = DefaultConf
    /\ result = Return(Str(<<"a", ",", " ", "4", "2", " ", "&", " ", "a">>))

=============================================================================
